---- MODULE Spec2Model ----
(***************************************************************************)
(* The spreadsheet-ingestion pipeline of FileProcessService: initiate,     *)
(* the background execution body, retry and the owner-scoped queries,      *)
(* over an abstract record store (the fileProcess and product tables).     *)
(***************************************************************************)
EXTENDS Integers, Sequences, FiniteSets, TLC

(***************************************************************************)
(* Bounds of the model.                                                    *)
(***************************************************************************)
\* runs created by initiateProcessing
MaxRuns == 1
\* execution bodies asked for: runs created plus retry calls accepted
MaxStarts == 3
\* failures injected by the environment (fetch timeouts, store errors)
MaxFaults == 2

(***************************************************************************)
(* JavaScript cell values.  A cell of an ExcelRow is undefined, a number   *)
(* or a string; a number is w + f/10 with w >= 0 and f a single digit, a   *)
(* string is a sequence of one-character strings.                          *)
(***************************************************************************)
Undefined == [t |-> "undefined"]
Null == [t |-> "null"]
NaN == [t |-> "NaN"]
Num(w, f) == [t |-> "number", w |-> w, f |-> f]
Str(s) == [t |-> "string", s |-> s]

Digits == <<"0", "1", "2", "3", "4", "5", "6", "7", "8", "9">>
IsDigit(c) == \E k \in 1..10 : Digits[k] = c
DigitVal(c) == (CHOOSE k \in 1..10 : Digits[k] = c) - 1
IsSpace(c) == c = " "

\* the decimal digits of a natural number
RECURSIVE DigitsOf(_)
DigitsOf(n) ==
    IF n < 10 THEN <<Digits[n + 1]>>
    ELSE DigitsOf(n \div 10) \o <<Digits[(n % 10) + 1]>>

\* JavaScript truthiness of a cell: undefined, 0, NaN and "" are falsy
Truthy(v) ==
    CASE v.t = "undefined" -> FALSE
      [] v.t = "null" -> FALSE
      [] v.t = "NaN" -> FALSE
      [] v.t = "number" -> ~(v.w = 0 /\ v.f = 0)
      [] v.t = "string" -> Len(v.s) > 0

\* String(v) for a number or a string
String(v) ==
    CASE v.t = "string" -> v.s
      [] v.t = "number" ->
            IF v.f = 0 THEN DigitsOf(v.w)
            ELSE DigitsOf(v.w) \o <<".", Digits[v.f + 1]>>
      [] v.t = "NaN" -> <<"N", "a", "N">>
      [] OTHER -> <<"u", "n", "d", "e", "f", "i", "n", "e", "d">>

\* s without its leading whitespace
RECURSIVE TrimStart(_)
TrimStart(s) ==
    IF Len(s) > 0 /\ IsSpace(Head(s)) THEN TrimStart(Tail(s)) ELSE s

\* s without its trailing whitespace
RECURSIVE TrimEnd(_)
TrimEnd(s) ==
    IF Len(s) > 0 /\ IsSpace(s[Len(s)])
    THEN TrimEnd(SubSeq(s, 1, Len(s) - 1)) ELSE s

\* String.prototype.trim
Trim(s) == TrimEnd(TrimStart(s))

\* the length of the longest prefix of s made of digits
RECURSIVE DigitRun(_)
DigitRun(s) ==
    IF Len(s) > 0 /\ IsDigit(Head(s)) THEN 1 + DigitRun(Tail(s)) ELSE 0

\* the value of a sequence of digits
RECURSIVE DigitsValue(_)
DigitsValue(s) ==
    IF Len(s) = 0 THEN 0
    ELSE 10 * DigitsValue(SubSeq(s, 1, Len(s) - 1)) + DigitVal(s[Len(s)])

\* parseInt: skips leading whitespace, reads the longest run of digits,
\* NaN when there is none
ParseInt(s) ==
    LET u == TrimStart(s)
        n == DigitRun(u)
    IN  IF n = 0 THEN NaN ELSE Num(DigitsValue(SubSeq(u, 1, n)), 0)

\* parseFloat: skips leading whitespace, reads digits, an optional "." and
\* digits; NaN when no digit was read.  Fractions are kept to one digit.
ParseFloat(s) ==
    LET u == TrimStart(s)
        n == DigitRun(u)
        rest == SubSeq(u, n + 1, Len(u))
        hasDot == Len(rest) > 0 /\ Head(rest) = "."
        m == IF hasDot THEN DigitRun(Tail(rest)) ELSE 0
    IN  IF n = 0 /\ m = 0 THEN NaN
        ELSE Num(IF n = 0 THEN 0 ELSE DigitsValue(SubSeq(u, 1, n)),
                 IF m = 0 THEN 0 ELSE DigitVal(rest[2]))

(***************************************************************************)
(* Rows and their transformation into products.                            *)
(***************************************************************************)
ExcelRow(name, category, price, stock, description) ==
    [name |-> name, category |-> category, price |-> price,
     stock |-> stock, description |-> description]

\* the filter of a batch: row.name && row.category && row.price
RowFilter(row) == Truthy(row.name) /\ Truthy(row.category) /\ Truthy(row.price)

\* the product built from an accepted row
RowToProduct(fileProcessId, row) ==
    [fileProcessId |-> fileProcessId,
     name |-> Str(Trim(String(row.name))),
     category |-> Str(Trim(String(row.category))),
     price |-> ParseFloat(String(row.price)),
     stock |-> IF Truthy(row.stock) THEN ParseInt(String(row.stock)) ELSE Num(0, 0),
     description |-> IF Truthy(row.description)
                     THEN Str(Trim(String(row.description))) ELSE Null]

(***************************************************************************)
(* Optional values (null or a value), statuses, messages.                  *)
(***************************************************************************)
None == <<>>
Some(x) == <<x>>

IN_PROGRESS == "IN_PROGRESS"
COMPLETED == "COMPLETED"
FAILED == "FAILED"

NotFoundMessage == "File process not found or access denied"
InvalidStateMessage == "Only failed processes can be retried"
UnknownErrorMessage == "Unknown error occurred"
\* messages of the errors the environment raises
FetchErrorMessage == "timeout of 30000ms exceeded"
ParseErrorMessage == "File is not a zip file"
InvalidValueMessage == "Invalid value provided"
StoreErrorMessages == {"Can't reach database server", ""}

\* a timestamp, named by the step that took it
Stamp(kind, n) == <<kind, n>>

(***************************************************************************)
(* The callers and the source files the runs are started on.               *)
(***************************************************************************)
Users == {"u1", "u2"}

\* rows per batch
batchSize == 100

\* row i of the large workbook: rows 2 and 150 are special, the rest are
\* well-formed rows with distinct names
BigRow(i) ==
    CASE i = 2 -> ExcelRow(Undefined, Str(<<"c">>), Num(4, 0), Num(1, 0), Undefined)
      [] i = 150 -> ExcelRow(Str(<<"p">> \o DigitsOf(149)), Str(<<"c">>),
                             Num(5, 0), Num(1, 0), Undefined)
      [] OTHER -> ExcelRow(Str(<<"p">> \o DigitsOf(i)), Str(<<"c">>),
                           Num(5, 0), Num(1, 0), Undefined)

\* the decoded rows behind each source locator (sheet_to_json of the first
\* sheet); "broken.xlsx" is not a workbook and has none
SheetRows(fileUrl) ==
    CASE fileUrl = "mixed.xlsx" ->
            << ExcelRow(Str(<<"a">>), Str(<<"c">>), Num(9, 5), Num(3, 0),
                        Str(<<" ", "d", " ">>)),
               ExcelRow(Str(<<"b">>), Str(<<"c">>), Str(<<"a", "b", "c">>),
                        Num(1, 0), Undefined),
               ExcelRow(Str(<<" ", "e">>), Str(<<"c">>), Str(<<"1", "2">>),
                        Undefined, Undefined) >>
      [] fileUrl = "stock.xlsx" ->
            << ExcelRow(Str(<<"s">>), Str(<<"c">>), Num(2, 0),
                        Str(<<"a", "b", "c">>), Undefined),
               ExcelRow(Str(<<"t">>), Str(<<"c">>), Num(2, 0),
                        Str(<<"7", "x">>), Undefined),
               ExcelRow(Str(<<"u">>), Str(<<"c">>), Num(2, 0),
                        Num(2, 5), Undefined) >>
      [] fileUrl = "big.xlsx" -> [i \in 1..201 |-> BigRow(i)]
      [] fileUrl = "empty.xlsx" -> << >>
      [] OTHER -> << >>

WellFormed(fileUrl) == fileUrl # "broken.xlsx"

FileUrls == {"mixed.xlsx", "stock.xlsx", "big.xlsx", "empty.xlsx", "broken.xlsx"}

\* SheetRows as a table, computed once
Rows == [fileUrl \in FileUrls |-> SheetRows(fileUrl)] @@ << >>

(***************************************************************************)
(* State.                                                                  *)
(***************************************************************************)
VARIABLES
    fileProcess,      \* the fileProcess table: run id -> row, ids are 1..Len
    product,          \* the product table: the set of stored rows
    bodies,           \* the processFileInBackground invocations, in start order
    calls,            \* the retryProcessing calls, in arrival order
    initiated,        \* what each initiateProcessing call returned
    faults,           \* failures injected so far
    storeAcceptsNaN   \* whether the store's numeric columns take a NaN:
                      \* "unknown" until a createMany first carries one

vars == <<fileProcess, product, bodies, calls, initiated, faults,
          storeAcceptsNaN>>

RunIds == 1..(MaxRuns + 1)
Exists(id) == id \in 1..Len(fileProcess)

\* runs created plus retry calls that passed their checks
Starts == Len(fileProcess) + Len(calls)

(***************************************************************************)
(* The record store.                                                       *)
(***************************************************************************)
\* the columns a new fileProcess row gets from the schema's defaults
SchemaDefaults ==
    [totalRows |-> None, processedRows |-> 0, errorMessage |-> None,
     completedAt |-> None]

\* a mutant of FindFirst: the owner is not part of the where clause
FindFirstById(id, userId) ==
    IF Exists(id) THEN Some(fileProcess[id]) ELSE None

\* prisma.fileProcess.findFirst({ where: { id, userId } })
FindFirst(id, userId) ==
    IF Exists(id) /\ fileProcess[id].userId = userId
    THEN Some(fileProcess[id]) ELSE None

\* prisma.product rows of one run
ProductsOf(id) == {p \in product : p.fileProcessId = id}

\* prisma.product.createMany({ data, skipDuplicates: true }): a row equal
\* to a stored one is skipped
CreateMany(data) == product \cup data

\* a mutant of DeleteMany: the where clause is dropped
DeleteManyAll(id) == {}

\* prisma.product.deleteMany({ where: { fileProcessId: id } })
DeleteMany(id) == {p \in product : p.fileProcessId # id}

\* whether a product carries a NaN in a numeric column
HasNaN(p) == p.price = NaN \/ p.stock = NaN

\* what the store does with a NaN, given whether the data carries one: the
\* schema decides it once, at the first such insert
NaNPolicies(nan) ==
    IF ~nan \/ storeAcceptsNaN # "unknown" THEN {storeAcceptsNaN}
    ELSE {"yes", "no"}

\* the environment may still inject a failure
CanFail == faults < MaxFaults

(***************************************************************************)
(* initiateProcessing                                                      *)
(***************************************************************************)
\* a mutant of NewFileProcess: the status is left to a default
NewFileProcessNoStatus(id, userId, fileUrl) ==
    [id |-> id, userId |-> userId, fileUrl |-> fileUrl,
     status |-> "PENDING", startedAt |-> Stamp("create", id),
     totalRows |-> SchemaDefaults.totalRows,
     processedRows |-> SchemaDefaults.processedRows,
     errorMessage |-> SchemaDefaults.errorMessage,
     completedAt |-> SchemaDefaults.completedAt]

\* the row created by initiateProcessing
NewFileProcess(id, userId, fileUrl) ==
    [id |-> id, userId |-> userId, fileUrl |-> fileUrl,
     status |-> IN_PROGRESS, startedAt |-> Stamp("create", id),
     totalRows |-> SchemaDefaults.totalRows,
     processedRows |-> SchemaDefaults.processedRows,
     errorMessage |-> SchemaDefaults.errorMessage,
     completedAt |-> SchemaDefaults.completedAt]

\* a processFileInBackground invocation at its first await, the download
NewBody(fileProcessId, fileUrl, origin) ==
    [fileProcessId |-> fileProcessId, fileUrl |-> fileUrl, origin |-> origin,
     pc |-> "fetch", i |-> 0, totalRows |-> 0, processedRows |-> 0,
     error |-> "", thrownAt |-> None, outcome |-> "running"]

\* the row is created, the body is started without being awaited, and the
\* created row is returned
CreateAndStart(userId, fileUrl) ==
    /\ LET id == Len(fileProcess) + 1
           created == NewFileProcess(id, userId, fileUrl)
       IN  /\ fileProcess' = Append(fileProcess, created)
           /\ bodies' = Append(bodies, NewBody(id, fileUrl, "initiate"))
           /\ initiated' = Append(initiated, created)
    /\ UNCHANGED <<product, calls, faults, storeAcceptsNaN>>

Initiate(userId, fileUrl) ==
    /\ Len(fileProcess) < MaxRuns
    /\ Starts < MaxStarts
    /\ CreateAndStart(userId, fileUrl)

\* initiateProcessing where a second run may be created next to the first,
\* on the small sources
PairFileUrls == {"mixed.xlsx", "broken.xlsx"}

InitiatePair(userId, fileUrl) ==
    /\ Len(fileProcess) < MaxRuns + 1
    /\ Starts < MaxStarts
    /\ fileUrl \in PairFileUrls
    /\ CreateAndStart(userId, fileUrl)

(***************************************************************************)
(* processFileInBackground                                                 *)
(***************************************************************************)
Min(a, b) == IF a < b THEN a ELSE b

\* rows.slice(i, i + batchSize)
Batch(rows, i) == SubSeq(rows, i + 1, Min(i + batchSize, Len(rows)))

\* the products prepared from a batch
BatchProducts(fileProcessId, batch) ==
    {RowToProduct(fileProcessId, batch[k]) : k \in {j \in 1..Len(batch) : RowFilter(batch[j])}}

\* the values the loop index takes on a sheet
LoopIndexes(rows) == {i \in 0..Len(rows) : i % batchSize = 0 /\ i < Len(rows)}

\* BatchProducts of every batch of every sheet, as a table computed once
Prepared ==
    [id \in RunIds |->
        [fileUrl \in FileUrls |->
            [i \in LoopIndexes(Rows[fileUrl]) |->
                BatchProducts(id, Batch(Rows[fileUrl], i))] @@ << >>] @@ << >>] @@ << >>

\* the body at the head of the loop with index i: past the last row it goes
\* to the final update; with products to insert it awaits createMany; with
\* none it counts the batch and awaits the progress update
LoopHead(b, i) ==
    LET rows == Rows[b.fileUrl]
    IN  IF ~(i < Len(rows)) THEN [b EXCEPT !.pc = "complete", !.i = i]
        ELSE IF Prepared[b.fileProcessId][b.fileUrl][i] # {}
        THEN [b EXCEPT !.pc = "createMany", !.i = i]
        ELSE [b EXCEPT !.pc = "progress", !.i = i,
                       !.processedRows = @ + Len(Batch(rows, i))]

\* the body after an await threw: it is in the catch block, where only the
\* error is in scope; thrownAt records the await that threw and the loop
\* index it threw at
Caught(b, message) ==
    [b EXCEPT !.pc = "fail", !.error = message, !.thrownAt = Some(<<b.pc, b.i>>),
              !.i = 0, !.totalRows = 0, !.processedRows = 0]

\* the body after it ended
Ended(b, outcome) ==
    [b EXCEPT !.pc = "done", !.outcome = outcome, !.error = "",
              !.thrownAt = None, !.i = 0, !.totalRows = 0, !.processedRows = 0]

At(k, pc) == k \in 1..Len(bodies) /\ bodies[k].pc = pc

\* axios.get resolves and the workbook is parsed, or either throws
BodyFetch(k) ==
    /\ At(k, "fetch")
    /\ LET b == bodies[k]
       IN  \/ /\ WellFormed(b.fileUrl)
              /\ bodies' = [bodies EXCEPT ![k] =
                    [b EXCEPT !.pc = "setTotal",
                              !.totalRows = Len(Rows[b.fileUrl])]]
              /\ UNCHANGED faults
           \/ /\ ~WellFormed(b.fileUrl)
              /\ bodies' = [bodies EXCEPT ![k] = Caught(b, ParseErrorMessage)]
              /\ UNCHANGED faults
           \/ /\ CanFail
              /\ bodies' = [bodies EXCEPT ![k] = Caught(b, FetchErrorMessage)]
              /\ faults' = faults + 1
    /\ UNCHANGED <<fileProcess, product, calls, initiated, storeAcceptsNaN>>

\* update({ data: { totalRows } }), then the loop is entered
BodySetTotal(k) ==
    /\ At(k, "setTotal")
    /\ LET b == bodies[k]
       IN  \/ /\ fileProcess' = [fileProcess EXCEPT
                    ![b.fileProcessId].totalRows = Some(b.totalRows)]
              /\ bodies' = [bodies EXCEPT ![k] = LoopHead(b, 0)]
              /\ UNCHANGED faults
           \/ /\ CanFail
              /\ \E m \in StoreErrorMessages :
                    bodies' = [bodies EXCEPT ![k] = Caught(b, m)]
              /\ faults' = faults + 1
              /\ UNCHANGED fileProcess
    /\ UNCHANGED <<product, calls, initiated, storeAcceptsNaN>>

\* createMany of the batch's products, then processedRows += batch.length
BodyCreateMany(k) ==
    /\ At(k, "createMany")
    /\ LET b == bodies[k]
           batch == Batch(Rows[b.fileUrl], b.i)
           data == Prepared[b.fileProcessId][b.fileUrl][b.i]
           nan == \E p \in data : HasNaN(p)
       IN  \/ /\ \E accepts \in NaNPolicies(nan) :
                    /\ storeAcceptsNaN' = accepts
                    /\ IF accepts = "no"
                       THEN /\ bodies' = [bodies EXCEPT ![k] =
                                  Caught(b, InvalidValueMessage)]
                            /\ UNCHANGED product
                       ELSE /\ product' = CreateMany(data)
                            /\ bodies' = [bodies EXCEPT ![k] =
                                  [b EXCEPT !.pc = "progress",
                                            !.processedRows = @ + Len(batch)]]
              /\ UNCHANGED faults
           \/ /\ CanFail
              /\ \E m \in StoreErrorMessages :
                    bodies' = [bodies EXCEPT ![k] = Caught(b, m)]
              /\ faults' = faults + 1
              /\ UNCHANGED <<product, storeAcceptsNaN>>
    /\ UNCHANGED <<fileProcess, calls, initiated>>

\* update({ data: { processedRows } }), the pause, then the next iteration
BodyProgress(k) ==
    /\ At(k, "progress")
    /\ LET b == bodies[k]
       IN  \/ /\ fileProcess' = [fileProcess EXCEPT
                    ![b.fileProcessId].processedRows = b.processedRows]
              /\ bodies' = [bodies EXCEPT ![k] = LoopHead(b, b.i + batchSize)]
              /\ UNCHANGED faults
           \/ /\ CanFail
              /\ \E m \in StoreErrorMessages :
                    bodies' = [bodies EXCEPT ![k] = Caught(b, m)]
              /\ faults' = faults + 1
              /\ UNCHANGED fileProcess
    /\ UNCHANGED <<product, calls, initiated, storeAcceptsNaN>>

\* the row after the final update of the try block
MarkCompleted(fp, k, totalRows) ==
    [fp EXCEPT !.status = COMPLETED, !.completedAt = Some(Stamp("body", k)),
               !.processedRows = totalRows]

\* update({ data: { status: COMPLETED, completedAt, processedRows: totalRows } })
BodyComplete(k) ==
    /\ At(k, "complete")
    /\ LET b == bodies[k]
       IN  \/ /\ fileProcess' = [fileProcess EXCEPT ![b.fileProcessId] =
                    MarkCompleted(@, k, b.totalRows)]
              /\ bodies' = [bodies EXCEPT ![k] = Ended(b, "completed")]
              /\ UNCHANGED faults
           \/ /\ CanFail
              /\ \E m \in StoreErrorMessages :
                    bodies' = [bodies EXCEPT ![k] = Caught(b, m)]
              /\ faults' = faults + 1
              /\ UNCHANGED fileProcess
    /\ UNCHANGED <<product, calls, initiated, storeAcceptsNaN>>

\* error.message || 'Unknown error occurred'
ErrorMessageOf(message) == IF message = "" THEN UnknownErrorMessage ELSE message

\* the row after the update of the catch block
MarkFailed(fp, k, message) ==
    [fp EXCEPT !.status = FAILED, !.errorMessage = Some(ErrorMessageOf(message)),
               !.completedAt = Some(Stamp("body", k))]

\* the catch block: update({ data: { status: FAILED, errorMessage,
\* completedAt } }); when this update throws too, the rejection reaches the
\* caller's .catch, which logs it
BodyFail(k) ==
    /\ At(k, "fail")
    /\ LET b == bodies[k]
       IN  \/ /\ fileProcess' = [fileProcess EXCEPT ![b.fileProcessId] =
                    MarkFailed(@, k, b.error)]
              /\ bodies' = [bodies EXCEPT ![k] = Ended(b, "failed")]
              /\ UNCHANGED faults
           \/ /\ CanFail
              /\ bodies' = [bodies EXCEPT ![k] = Ended(b, "escaped")]
              /\ faults' = faults + 1
              /\ UNCHANGED fileProcess
    /\ UNCHANGED <<product, calls, initiated, storeAcceptsNaN>>

(***************************************************************************)
(* retryProcessing                                                         *)
(***************************************************************************)
\* a mutant of Retriable: only a completed run is refused
RetriableUnlessCompleted(fp) == fp.status # COMPLETED

\* the guard on the row that findFirst returned
Retriable(fp) == fp.status = FAILED

\* a retryProcessing call: the run it names, the caller, where it is, the
\* row that findFirst returned, and what the call threw or returned
NewCall(id, userId, pc, read) ==
    [id |-> id, userId |-> userId, pc |-> pc, read |-> Some(read),
     outcome |-> "pending", error |-> "", result |-> None]

\* the call after it threw
Threw(c, message) ==
    [c EXCEPT !.pc = "done", !.outcome = "threw", !.error = message,
              !.read = None, !.result = None]

\* the call after it returned the updated row
Returned(c) == [c EXCEPT !.pc = "done", !.outcome = "returned", !.read = None]

In(c, pc) == c \in 1..Len(calls) /\ calls[c].pc = pc

\* what findFirst and the two checks on its result throw, "" when they pass
RetryCheck(id, userId) ==
    LET found == FindFirst(id, userId)
    IN  IF found = None THEN NotFoundMessage
        ELSE IF ~Retriable(found[1]) THEN InvalidStateMessage
        ELSE ""

\* findFirst and the two checks: the call throws and is over, or it goes on
\* to the update with the row it read
RetryFind(id, userId) ==
    /\ Starts < MaxStarts
    /\ IF RetryCheck(id, userId) # ""
       THEN UNCHANGED calls
       ELSE calls' = Append(calls, NewCall(id, userId, "update",
                                          FindFirst(id, userId)[1]))
    /\ UNCHANGED <<fileProcess, product, bodies, initiated, faults, storeAcceptsNaN>>

\* the row after the reset of retryProcessing
ResetForRetry(fp, c) ==
    [fp EXCEPT !.status = IN_PROGRESS, !.processedRows = 0,
               !.errorMessage = None, !.completedAt = None,
               !.startedAt = Stamp("retry", c)]

\* update({ where: { id }, data: { status: IN_PROGRESS, processedRows: 0, ... } })
RetryUpdate(c) ==
    /\ In(c, "update")
    /\ LET id == calls[c].id
       IN  \/ /\ fileProcess' = [fileProcess EXCEPT ![id] = ResetForRetry(@, c)]
              /\ calls' = [calls EXCEPT ![c].pc = "deleteMany",
                                        ![c].result = Some(ResetForRetry(fileProcess[id], c))]
              /\ UNCHANGED faults
           \/ /\ CanFail
              /\ \E m \in StoreErrorMessages :
                    calls' = [calls EXCEPT ![c] = Threw(@, m)]
              /\ faults' = faults + 1
              /\ UNCHANGED fileProcess
    /\ UNCHANGED <<product, bodies, initiated, storeAcceptsNaN>>

\* deleteMany of the run's products; then the body is started without being
\* awaited and the updated row is returned
RetryDelete(c) ==
    /\ In(c, "deleteMany")
    /\ LET id == calls[c].id
       IN  \/ /\ product' = DeleteMany(id)
              /\ bodies' = Append(bodies, NewBody(id, calls[c].read[1].fileUrl, "retry"))
              /\ calls' = [calls EXCEPT ![c] = Returned(@)]
              /\ UNCHANGED faults
           \/ /\ CanFail
              /\ \E m \in StoreErrorMessages :
                    calls' = [calls EXCEPT ![c] = Threw(@, m)]
              /\ faults' = faults + 1
              /\ UNCHANGED <<product, bodies>>
    /\ UNCHANGED <<fileProcess, initiated, storeAcceptsNaN>>

(***************************************************************************)
(* getById, getProducts                                                    *)
(***************************************************************************)
\* findFirst({ where: { id, userId }, include: { _count: { products } } })
GetByIdResult(id, userId) ==
    LET found == FindFirst(id, userId)
    IN  [op |-> "getById", id |-> id, userId |-> userId, error |-> "",
         run |-> found,
         products |-> {}]

\* the ownership check, then the products where { fileProcessId }
GetProductsResult(id, userId) ==
    LET found == FindFirst(id, userId)
    IN  IF found = None
        THEN [op |-> "getProducts", id |-> id, userId |-> userId,
              error |-> NotFoundMessage, run |-> None, products |-> {}]
        ELSE [op |-> "getProducts", id |-> id, userId |-> userId,
              error |-> "", run |-> None, products |-> ProductsOf(id)]

\* the queries answer GetByIdResult and GetProductsResult from the store as
\* it is, and change nothing
GetById(id, userId) ==
    /\ id \in RunIds /\ userId \in Users
    /\ UNCHANGED vars

GetProducts(id, userId) ==
    /\ id \in RunIds /\ userId \in Users
    /\ UNCHANGED vars

(***************************************************************************)
(* The specification.                                                      *)
(***************************************************************************)
Init ==
    /\ fileProcess = << >>
    /\ product = {}
    /\ bodies = << >>
    /\ calls = << >>
    /\ initiated = << >>
    /\ faults = 0
    /\ storeAcceptsNaN = "unknown"

BodyIds == 1..MaxStarts
CallIds == 1..MaxStarts

Next ==
    \/ \E userId \in Users, fileUrl \in FileUrls : Initiate(userId, fileUrl)
    \/ \E k \in BodyIds : BodyFetch(k)
    \/ \E k \in BodyIds : BodySetTotal(k)
    \/ \E k \in BodyIds : BodyCreateMany(k)
    \/ \E k \in BodyIds : BodyProgress(k)
    \/ \E k \in BodyIds : BodyComplete(k)
    \/ \E k \in BodyIds : BodyFail(k)
    \/ \E id \in RunIds, userId \in Users : RetryFind(id, userId)
    \/ \E c \in CallIds : RetryUpdate(c)
    \/ \E c \in CallIds : RetryDelete(c)
    \/ \E id \in RunIds, userId \in Users : GetById(id, userId)
    \/ \E id \in RunIds, userId \in Users : GetProducts(id, userId)

Spec == Init /\ [][Next]_vars

\* the same operations with up to MaxRuns + 1 runs side by side
NextPair ==
    \/ \E userId \in Users, fileUrl \in FileUrls : InitiatePair(userId, fileUrl)
    \/ \E k \in BodyIds : BodyFetch(k)
    \/ \E k \in BodyIds : BodySetTotal(k)
    \/ \E k \in BodyIds : BodyCreateMany(k)
    \/ \E k \in BodyIds : BodyProgress(k)
    \/ \E k \in BodyIds : BodyComplete(k)
    \/ \E k \in BodyIds : BodyFail(k)
    \/ \E id \in RunIds, userId \in Users : RetryFind(id, userId)
    \/ \E c \in CallIds : RetryUpdate(c)
    \/ \E c \in CallIds : RetryDelete(c)
    \/ \E id \in RunIds, userId \in Users : GetById(id, userId)
    \/ \E id \in RunIds, userId \in Users : GetProducts(id, userId)

SpecPair == Init /\ [][NextPair]_vars

(***************************************************************************)
(* The claims.                                                             *)
(***************************************************************************)
Runs == 1..Len(fileProcess)
Terminal(status) == status \in {COMPLETED, FAILED}

\* the bodies of a run that have started and have not ended
ActiveBodies(id) ==
    {k \in 1..Len(bodies) : bodies[k].fileProcessId = id /\ bodies[k].pc # "done"}

\* C1: in every reachable state of every run, once totalRows is set,
\* processedRows <= totalRows, and a COMPLETED run has processedRows =
\* totalRows.
C1_ProcessedWithinTotal ==
    \A id \in Runs :
        LET fp == fileProcess[id]
        IN  /\ fp.totalRows # None => fp.processedRows <= fp.totalRows[1]
            /\ fp.status = COMPLETED => fp.totalRows = Some(fp.processedRows)

\* C2: a retry by the owner of a run whose stored status is COMPLETED or
\* IN_PROGRESS throws 'Only failed processes can be retried', and no call
\* goes on to the update, the delete or a new body unless the run it names
\* is FAILED when the call reads it.
C2_RetryRefusedUnlessFailed ==
    /\ [](\A id \in Runs :
            fileProcess[id].status \in {COMPLETED, IN_PROGRESS} =>
                RetryCheck(id, fileProcess[id].userId) = InvalidStateMessage)
    /\ [][Len(calls') > Len(calls) =>
            fileProcess[calls'[Len(calls')].id].status = FAILED]_vars

\* a COMPLETED run with stored records whose owner's retry is refused
C2_Witness ==
    \E id \in Runs :
        /\ fileProcess[id].status = COMPLETED
        /\ ProductsOf(id) # {}
        /\ RetryCheck(id, fileProcess[id].userId) = InvalidStateMessage

\* C3: of two retry calls on the same FAILED run, one makes the transition
\* to IN_PROGRESS and the other is refused: no two calls pass the status
\* check on the same failed attempt of a run.
C3_OneRetryPerFailure ==
    \A c1, c2 \in 1..Len(calls) :
        (c1 # c2 /\ calls[c1].id = calls[c2].id
                 /\ calls[c1].pc # "done" /\ calls[c2].pc # "done")
            => calls[c1].read[1].completedAt # calls[c2].read[1].completedAt

\* C4: no run has two execution bodies active at the same time.
C4_OneActiveBody ==
    \A id \in Runs : Cardinality(ActiveBodies(id)) <= 1

\* what one successful first attempt on the run's source stores
Expected(id) ==
    LET fileUrl == fileProcess[id].fileUrl
    IN  UNION {Prepared[id][fileUrl][i] : i \in LoopIndexes(Rows[fileUrl])}

\* C5: once a retried body has completed a run, the run's records are
\* exactly those a single successful first attempt stores.
C5_RetryReplacesRecords ==
    \A id \in Runs :
        (/\ fileProcess[id].status = COMPLETED
         /\ \E k \in 1..Len(bodies) :
                /\ bodies[k].fileProcessId = id
                /\ bodies[k].origin = "retry"
                /\ bodies[k].outcome = "completed")
            => ProductsOf(id) = Expected(id)

\* a cell that is absent or empty
Missing(v) == v.t = "undefined" \/ (v.t = "string" /\ Len(v.s) = 0)

\* a price cell that parses as a finite number
PriceParses(v) ==
    \/ v.t = "number"
    \/ v.t = "string" /\ ParseFloat(v.s) # NaN

\* a row the policy rejects: no name, no category or no parsable price
BadRow(row) == Missing(row.name) \/ Missing(row.category) \/ ~PriceParses(row.price)

\* the products the bad rows of each sheet would give, as a table
FromBadRows ==
    [id \in 1..MaxRuns |->
        [fileUrl \in FileUrls |->
            {RowToProduct(id, Rows[fileUrl][j]) :
                j \in {n \in 1..Len(Rows[fileUrl]) : BadRow(Rows[fileUrl][n])}}]
        @@ << >>] @@ << >>

\* C6: no stored record comes from a row without a name, a category or a
\* parsable price, and a body that ran on a well-formed source with no
\* failure injected ends COMPLETED with processedRows = totalRows = the
\* number of rows.
C6_BadRowsDroppedRunCompletes ==
    /\ \A id \in Runs :
            ProductsOf(id) \cap FromBadRows[id][fileProcess[id].fileUrl] = {}
    /\ \A k \in 1..Len(bodies) :
            LET b == bodies[k]
                fp == fileProcess[b.fileProcessId]
            IN  (b.pc = "done" /\ WellFormed(b.fileUrl) /\ faults = 0)
                    => /\ b.outcome = "completed"
                       /\ fp.status = COMPLETED
                       /\ fp.processedRows = Len(Rows[b.fileUrl])
                       /\ fp.totalRows = Some(Len(Rows[b.fileUrl]))

\* C7: a body that ends leaves its run COMPLETED or FAILED, and its error
\* does not escape it.
C7_BodyEndsTerminal ==
    [][\A k \in 1..Len(bodies) :
          (bodies[k].pc # "done" /\ bodies'[k].pc = "done")
              => /\ bodies'[k].outcome # "escaped"
                 /\ Terminal(fileProcess'[bodies[k].fileProcessId].status)]_vars

\* C8: the FAILED transition of a body leaves processedRows and the stored
\* records as they are; after a first attempt that failed at the download,
\* processedRows = 0 and totalRows is not set; after a createMany that threw
\* at loop index i, processedRows = i, the rows of the batches before it,
\* and the records of those batches are stored.
C8_FailureKeepsCheckpoint ==
    [][\A k \in 1..Len(bodies) :
          (bodies[k].pc = "fail" /\ bodies'[k].outcome = "failed") =>
            LET b == bodies[k]
                id == b.fileProcessId
                at == b.thrownAt[1]
            IN  /\ fileProcess'[id].status = FAILED
                /\ fileProcess'[id].processedRows = fileProcess[id].processedRows
                /\ fileProcess'[id].totalRows = fileProcess[id].totalRows
                /\ product' = product
                /\ (b.origin = "initiate" /\ at[1] = "fetch")
                      => /\ fileProcess'[id].processedRows = 0
                         /\ fileProcess'[id].totalRows = None
                /\ at[1] = "createMany"
                      => /\ fileProcess'[id].processedRows = at[2]
                         /\ \A i \in LoopIndexes(Rows[b.fileUrl]) :
                                i < at[2] => Prepared[id][b.fileUrl][i] \subseteq product']_vars

\* C9: for a caller that does not own the run, or an id that names no run,
\* getById returns no row, getProducts and retry throw 'File process not
\* found or access denied' and return no product, and no retry call goes on
\* for a caller that is not the owner.
C9_OwnerScoped ==
    /\ [](\A id \in RunIds, userId \in Users :
            ~(Exists(id) /\ fileProcess[id].userId = userId) =>
                /\ GetByIdResult(id, userId).run = None
                /\ GetProductsResult(id, userId).error = NotFoundMessage
                /\ GetProductsResult(id, userId).products = {}
                /\ RetryCheck(id, userId) = NotFoundMessage)
    /\ [][Len(calls') > Len(calls) =>
            LET c == calls'[Len(calls')]
            IN  Exists(c.id) /\ fileProcess[c.id].userId = c.userId]_vars

\* a FAILED run with stored records: its owner lists them and may retry,
\* the other user is refused both
C9_Witness ==
    \E id \in Runs, userId \in Users :
        /\ fileProcess[id].userId # userId
        /\ fileProcess[id].status = FAILED
        /\ ProductsOf(id) # {}
        /\ GetProductsResult(id, fileProcess[id].userId).products = ProductsOf(id)
        /\ GetProductsResult(id, userId).error = NotFoundMessage
        /\ RetryCheck(id, fileProcess[id].userId) = ""
        /\ RetryCheck(id, userId) = NotFoundMessage

\* C10: when the body started by initiateProcessing is at its download, the
\* run is stored with status IN_PROGRESS, processedRows 0 and totalRows not
\* set; initiateProcessing has returned that row, and the step that creates
\* the run leaves the body at the download, not ended.
C10_RunVisibleBeforeBody ==
    /\ [](\A k \in 1..Len(bodies) :
            (bodies[k].origin = "initiate" /\ bodies[k].pc = "fetch") =>
                LET id == bodies[k].fileProcessId
                IN  /\ Exists(id)
                    /\ fileProcess[id].status = IN_PROGRESS
                    /\ fileProcess[id].processedRows = 0
                    /\ fileProcess[id].totalRows = None
                    /\ initiated[id] = fileProcess[id])
    /\ [][Len(fileProcess') > Len(fileProcess) =>
            LET id == Len(fileProcess')
            IN  /\ Len(initiated') = id
                /\ initiated'[id].status = IN_PROGRESS
                /\ \E k \in 1..Len(bodies') :
                      /\ bodies'[k].fileProcessId = id
                      /\ bodies'[k].pc = "fetch"]_vars

\* a run just created: its body is at the download and the row is returned
C10_Witness ==
    \E k \in 1..Len(bodies) :
        /\ bodies[k].origin = "initiate"
        /\ bodies[k].pc = "fetch"
        /\ initiated[bodies[k].fileProcessId].status = IN_PROGRESS

\* the products of a run after the step
ProductsOfNext(id) == {p \in product' : p.fileProcessId = id}

\* C11: once a run is stored as COMPLETED, no step changes its status, its
\* processedRows, its errorMessage or its stored records.
C11_CompletedIsTerminal ==
    [][\A id \in Runs :
          fileProcess[id].status = COMPLETED =>
              /\ fileProcess'[id].status = COMPLETED
              /\ fileProcess'[id].processedRows = fileProcess[id].processedRows
              /\ fileProcess'[id].errorMessage = fileProcess[id].errorMessage
              /\ ProductsOfNext(id) = ProductsOf(id)]_vars

\* C12: at the step of an accepted retry that starts the new body at its
\* download, the run is IN_PROGRESS with processedRows 0, no errorMessage,
\* no completedAt and no stored record; the records were deleted by then.
C12_RetryStartsFromFreshRun ==
    [][(Len(bodies') > Len(bodies) /\ bodies'[Len(bodies')].origin = "retry") =>
          LET b == bodies'[Len(bodies')]
              fp == fileProcess'[b.fileProcessId]
          IN  /\ b.pc = "fetch"
              /\ fp.status = IN_PROGRESS
              /\ fp.processedRows = 0
              /\ fp.errorMessage = None
              /\ fp.completedAt = None
              /\ ProductsOfNext(b.fileProcessId) = {}]_vars

\* C13: a run has a non-empty errorMessage exactly when its status is
\* FAILED.
C13_ErrorMessageIffFailed ==
    \A id \in Runs :
        LET fp == fileProcess[id]
        IN  fp.status = FAILED <=> (fp.errorMessage # None /\ fp.errorMessage[1] # "")

\* a stored numeric value that is a whole number
IsInteger(v) == v.t = "number" /\ v.f = 0

\* C14: every stored record has an integer stock, and a stock cell alone
\* never makes a row fail: a createMany that the store refuses for an
\* invalid value carries a record whose price is not a number.
C14_StockIntegerOrZero ==
    /\ \A p \in product : IsInteger(p.stock)
    /\ \A k \in 1..Len(bodies) :
          LET b == bodies[k]
          IN  (b.pc = "fail" /\ b.error = InvalidValueMessage) =>
                  \E p \in Prepared[b.fileProcessId][b.fileUrl][b.thrownAt[1][2]] :
                      p.price = NaN

\* rows in the batches that end at or before loop index i + batchSize
RowsThrough(fileUrl, i) == Min(i + batchSize, Len(Rows[fileUrl]))

\* C15: while a run stays IN_PROGRESS its stored processedRows never
\* decreases, and the progress update of the batch at loop index i stores
\* min(i + batchSize, number of rows), the source rows handled so far.
C15_ProgressMonotoneAndCumulative ==
    /\ [][\A id \in Runs :
            (fileProcess[id].status = IN_PROGRESS /\ fileProcess'[id].status = IN_PROGRESS)
                => fileProcess'[id].processedRows >= fileProcess[id].processedRows]_vars
    /\ [][\A k \in 1..Len(bodies) :
            (/\ bodies[k].pc = "progress" /\ bodies'[k] # bodies[k]
             /\ bodies'[k].pc \in {"createMany", "progress", "complete"})
                => fileProcess'[bodies[k].fileProcessId].processedRows =
                       RowsThrough(bodies[k].fileUrl, bodies[k].i)]_vars

\* the step is the reset of an accepted retry of the run
RetryResets(id) ==
    \E c \in 1..Len(calls) :
        calls[c].id = id /\ calls[c].pc = "update" /\ calls'[c].pc = "deleteMany"

\* C16: the status and the processedRows of a COMPLETED or FAILED run change
\* only by the reset of an accepted retry: an update issued by an execution
\* body leaves them as they are.
C16_TerminalRunUnchangedByBody ==
    [][\A id \in Runs :
          (/\ Terminal(fileProcess[id].status)
           /\ \/ fileProcess'[id].status # fileProcess[id].status
              \/ fileProcess'[id].processedRows # fileProcess[id].processedRows)
              => RetryResets(id)]_vars

\* the records of the batches of a sheet that start before loop index n
RecordsBefore(id, fileUrl, n) ==
    UNION {Prepared[id][fileUrl][i] : i \in {j \in LoopIndexes(Rows[fileUrl]) : j < n}}

\* the loop indexes a body can stop between: 0, batchSize, ... up to the
\* first one past the last row
Checkpoints(fileUrl) ==
    {n \in 0..(Len(Rows[fileUrl]) + batchSize - 1) : n % batchSize = 0}

\* C17: wherever an execution body stops, its run is IN_PROGRESS, and for
\* some k the stored records are those of batches 1..k and processedRows
\* is the number of source rows in those k batches.
C17_CrashLeavesCommittedPrefix ==
    \A id \in Runs :
        ActiveBodies(id) # {} =>
            LET fp == fileProcess[id]
            IN  /\ fp.status = IN_PROGRESS
                /\ \E n \in Checkpoints(fp.fileUrl) :
                      /\ ProductsOf(id) = RecordsBefore(id, fp.fileUrl, n)
                      /\ fp.processedRows = Min(n, Len(Rows[fp.fileUrl]))

\* the step is one of run id: its creation, a step of one of its bodies or
\* a step of a retry call on it
StepOf(id) ==
    \/ ~Exists(id) /\ Len(fileProcess') = id
    \/ \E k \in 1..Len(bodies) :
          bodies[k].fileProcessId = id /\ bodies'[k] # bodies[k]
    \/ \E k \in (Len(bodies) + 1)..Len(bodies') : bodies'[k].fileProcessId = id
    \/ \E c \in 1..Len(calls) : calls[c].id = id /\ calls'[c] # calls[c]
    \/ \E c \in (Len(calls) + 1)..Len(calls') : calls'[c].id = id

\* C18: a step of initiate, of a body or of a retry for run A leaves the
\* stored row and the stored records of every other run B as they are, and
\* every stored record carries the id of a run.
C18_RunsIsolated ==
    /\ [](\A p \in product : p.fileProcessId \in Runs)
    /\ [][\A A \in RunIds, B \in Runs :
            (A # B /\ StepOf(A)) =>
                /\ fileProcess'[B] = fileProcess[B]
                /\ ProductsOfNext(B) = ProductsOf(B)]_vars

\* two runs: one has stored records, and a retry of the other has deleted
\* that other run's records and started its body
C18_Witness ==
    \E A, B \in Runs :
        /\ A # B
        /\ ProductsOf(B) # {}
        /\ \E c \in 1..Len(calls) : calls[c].id = A /\ calls[c].outcome = "returned"
        /\ \E k \in 1..Len(bodies) :
              bodies[k].fileProcessId = A /\ bodies[k].origin = "retry"

\* a retry call of the run that has written IN_PROGRESS and has yet to
\* delete the records and start the body
RetryPending(id) ==
    \E c \in 1..Len(calls) : calls[c].id = id /\ calls[c].pc = "deleteMany"

\* C19: a run stored as IN_PROGRESS has an execution body that is active,
\* or one about to be started by the retry that wrote the status.
C19_RunningHasBody ==
    \A id \in Runs :
        fileProcess[id].status = IN_PROGRESS =>
            ActiveBodies(id) # {} \/ RetryPending(id)

\* C20: the reset of an accepted retry leaves totalRows not set, as on a
\* newly created run, and a body that fails at its download, first attempt
\* or retried, leaves the run FAILED with totalRows not set.
C20_RetryUnsetsTotal ==
    [][/\ \A id \in Runs : RetryResets(id) =>
              fileProcess'[id].totalRows = SchemaDefaults.totalRows
       /\ \A k \in 1..Len(bodies) :
              (/\ bodies[k].pc = "fail" /\ bodies'[k].outcome = "failed"
               /\ bodies[k].thrownAt[1][1] = "fetch"
               /\ Cardinality(ActiveBodies(bodies[k].fileProcessId)) = 1)
                  => fileProcess'[bodies[k].fileProcessId].totalRows = None]_vars
====
